---- MODULE Spec2Model ----
(***************************************************************************)
(* A model of src/actinetcrf.py (SleepFormer): the Windower                *)
(* (SleepDataset.preprocess_data), the sequence labeling model             *)
(* (ActiNetCRFModel), the evaluation loop (test_model) and the event       *)
(* pipeline (predict_events).                                              *)
(*                                                                         *)
(* Each component has its own specification over the shared variables:     *)
(*   SpecWindower  preprocess_data, one step per loop iteration            *)
(*   SpecScan      the transition scan of predict_events (lines 188-206)   *)
(*   SpecPredict   the reassembly loop of predict_events (lines 162-184)   *)
(*   SpecModel     construction, mode changes, decoding, test_model        *)
(***************************************************************************)
EXTENDS Integers, Sequences, FiniteSets, TLC

VARIABLES
    \* ---- SleepDataset.preprocess_data ----
    data,            \* self.data: the series of the table, in series_ids order
    sequence_length, \* self.sequence_length
    is_test,         \* self.is_test
    data_chunks,     \* the list being built
    timestamp,       \* the local variable `timestamp` (unbound until first assigned)
    sidx,            \* position of the outer loop in self.series_ids
    i,               \* the inner loop's range value
    wpc,             \* where preprocess_data is
    \* ---- predict_events, the transition scan (lines 188-206) ----
    pred_dict,       \* the cleaned sequences, one entry per series, in dict order
    prediction_rows, \* the rows emitted so far
    curr_state,      \* line 189
    curr_series,     \* line 190
    spos,            \* position of the outer loop in pred_dict.items()
    zpos,            \* position of the inner loop in the series' sequence
    spc,             \* where the scan is
    origin,          \* history: for each row, the series and index that produced it
    \* ---- ActiNetCRFModel, train_model, test_model, predict_events ----
    mpc,             \* where the driver is: new, failed, ready, train, test,
                     \* predict, reassembled, raised
    num_classes,     \* self.num_classes
    training,        \* nn.Module.training, the mode flag
    theta,           \* the learned state of the model (its state_dict)
    loader,          \* the batches of the data loader in use
    bidx,            \* position of the running loop in the loader
    correct_predictions, \* test_model, line 129
    total_samples,   \* test_model, line 130
    predicted,       \* test_model, line 143 (last batch)
    labels_flat,     \* test_model, line 144 (last batch)
    predictions,     \* predict_events, line 166
    series_ids,      \* predict_events, line 167
    steps,           \* predict_events, line 168
    entry_mode,      \* history: the mode flag on entry to the running call
    decoded_log      \* history: the inference-mode decodings made so far

wvars == <<data, sequence_length, is_test, data_chunks, timestamp, sidx, i, wpc>>

svars == <<pred_dict, prediction_rows, curr_state, curr_series, spos, zpos, spc, origin>>

mvars == <<mpc, num_classes, training, theta, loader, bidx, correct_predictions,
           total_samples, predicted, labels_flat, predictions, series_ids, steps,
           entry_mode, decoded_log>>

vars == <<wvars, svars, mvars>>

\* ---------------------------------------------------------------- bounds
MaxSeries == 2
MaxLen == 5
MaxW == 3
MaxScanSeries == 2
MaxPreds == 3
MaxClasses == 2
MaxBatch == 2
MaxWin == 3
MaxWindows == 2

\* ---------------------------------------------------------------- helpers
Min(a, b) == IF a < b THEN a ELSE b

\* Python's v[lo:lo+n] on a vector of length len, as the 0-based positions kept.
Slice(len, lo, n) ==
    IF lo >= len THEN <<>>
    ELSE [k \in 1..(Min(lo + n, len) - lo) |-> lo + k - 1]

\* A series of the table: its length and whether its timestamp column parses.
SeriesShapes == [len : 0..MaxLen, ts_ok : BOOLEAN]

Tables == UNION {[1..n -> SeriesShapes] : n \in 1..MaxSeries}

Unbound == [src |-> 0, len |-> 0]

\* series identifiers
ScanIds == <<"s1", "s2", "s3", "s4">>

\* Python's None
None == "None"

\* the scan is not running
SIdle ==
    /\ pred_dict = <<>>
    /\ prediction_rows = <<>>
    /\ curr_state = None
    /\ curr_series = None
    /\ spos = 1
    /\ zpos = 1
    /\ spc = "idle"
    /\ origin = <<>>

\* the learned state before any training step
Theta0 == [gain |-> 1, stay |-> 0, mean |-> 0]

\* no model has been constructed
MIdle ==
    /\ mpc = "idle"
    /\ num_classes = 2
    /\ training = TRUE
    /\ theta = Theta0
    /\ loader = <<>>
    /\ bidx = 1
    /\ correct_predictions = 0
    /\ total_samples = 0
    /\ predicted = <<>>
    /\ labels_flat = <<>>
    /\ predictions = <<>>
    /\ series_ids = <<>>
    /\ steps = <<>>
    /\ entry_mode = TRUE
    /\ decoded_log = {}

\* ------------------------------------------------- Windower (lines 18-50)
WInit ==
    /\ data \in Tables
    /\ sequence_length \in 1..MaxW
    /\ is_test \in BOOLEAN
    /\ data_chunks = <<>>
    /\ timestamp = Unbound
    /\ sidx = 1
    /\ i = 0
    /\ wpc = "series"
    /\ SIdle
    /\ MIdle

\* preprocess_data is not running
WIdle ==
    /\ data = <<>>
    /\ sequence_length = 1
    /\ is_test = TRUE
    /\ data_chunks = <<>>
    /\ timestamp = Unbound
    /\ sidx = 1
    /\ i = 0
    /\ wpc = "idle"

\* line 43: only a chunk of full length is included
IncludeChunkAny(chunk_data, W) == Len(chunk_data) > 0
IncludeChunk(chunk_data, W) == Len(chunk_data) = W

\* lines 39-48: the chunk cut at offset lo of series s; the timestamp slice is
\* taken from whatever vector the local `timestamp` holds.
MakeChunk(s, lo, W, ts, test) ==
    [series_id |-> s,
     data      |-> [src |-> s, pos |-> Slice(data[s].len, lo, W)],
     step      |-> [src |-> s, pos |-> Slice(data[s].len, lo, W)],
     timestamp |-> [src |-> ts.src, pos |-> Slice(ts.len, lo, W)],
     label     |-> IF test THEN <<>> ELSE Slice(data[s].len, lo, W)]

\* lines 28-35, the timestamp column parses: `timestamp` is this series' vector
SeriesParsed ==
    /\ wpc = "series"
    /\ sidx <= Len(data)
    /\ data[sidx].ts_ok
    /\ timestamp' = [src |-> sidx, len |-> data[sidx].len]
    /\ i' = 0
    /\ wpc' = "chunk"
    /\ UNCHANGED <<data, sequence_length, is_test, data_chunks, sidx>>
    /\ UNCHANGED <<svars, mvars>>

\* lines 31-34, the parse raises and the bare except calls breakpoint(); the
\* run goes on with `timestamp` as the previous iteration left it (the debugger
\* is continued, or PYTHONBREAKPOINT=0 makes the call a no-op)
SeriesBreakpointContinue ==
    /\ wpc = "series"
    /\ sidx <= Len(data)
    /\ ~data[sidx].ts_ok
    /\ i' = 0
    /\ wpc' = "chunk"
    /\ UNCHANGED <<data, sequence_length, is_test, data_chunks, timestamp, sidx>>
    /\ UNCHANGED <<svars, mvars>>

\* lines 31-34, the parse raises and the debugger session is quit (BdbQuit)
SeriesBreakpointQuit ==
    /\ wpc = "series"
    /\ sidx <= Len(data)
    /\ ~data[sidx].ts_ok
    /\ wpc' = "error"
    /\ UNCHANGED <<data, sequence_length, is_test, data_chunks, timestamp, sidx, i>>
    /\ UNCHANGED <<svars, mvars>>

\* lines 38-48, one iteration of the inner loop
Chunk ==
    /\ wpc = "chunk"
    /\ i < data[sidx].len
    /\ IF timestamp = Unbound
       THEN \* line 40: NameError, `timestamp` was never assigned
            /\ wpc' = "error"
            /\ UNCHANGED <<data_chunks, i>>
       ELSE LET c == MakeChunk(sidx, i, sequence_length, timestamp, is_test) IN
            /\ data_chunks' = IF IncludeChunk(c.data.pos, sequence_length)
                              THEN Append(data_chunks, c)
                              ELSE data_chunks
            /\ i' = i + sequence_length
            /\ wpc' = wpc
    /\ UNCHANGED <<data, sequence_length, is_test, timestamp, sidx>>
    /\ UNCHANGED <<svars, mvars>>

\* line 38, the range is exhausted: on to the next series
ChunksDone ==
    /\ wpc = "chunk"
    /\ i >= data[sidx].len
    /\ sidx' = sidx + 1
    /\ wpc' = "series"
    /\ UNCHANGED <<data, sequence_length, is_test, data_chunks, timestamp, i>>
    /\ UNCHANGED <<svars, mvars>>

\* line 50
WReturn ==
    /\ wpc = "series"
    /\ sidx > Len(data)
    /\ wpc' = "done"
    /\ UNCHANGED <<data, sequence_length, is_test, data_chunks, timestamp, sidx, i>>
    /\ UNCHANGED <<svars, mvars>>

WNext ==
    \/ SeriesParsed
    \/ SeriesBreakpointContinue
    \/ SeriesBreakpointQuit
    \/ Chunk
    \/ ChunksDone
    \/ WReturn

SpecWindower == WInit /\ [][WNext]_vars

\* ------------------------------------------------- Windower: claims
WindowsOf(s) == SelectSeq(data_chunks, LAMBDA c : c.series_id = s)

\* the k-th (k = 0, 1, ...) full window of series s: positions [k*W, (k+1)*W)
FullWindow(s, k, W) == [src |-> s, pos |-> [j \in 1..W |-> k * W + j - 1]]

PositionsIn(w) == {w.pos[j] : j \in 1..Len(w.pos)}

\* C1: a series of length L yields exactly floor(L/W) windows; window k holds
\* the samples at positions [k*W, (k+1)*W) of that one series, the windows are
\* appended in ascending k, every position below floor(L/W)*W lies in exactly
\* one window, and no position of the trailing partial segment lies in any.
\* While a series is still being cut its windows are a prefix of that list.
C1_WindowingCoverage ==
    \A s \in 1..Len(data) :
        LET ws == WindowsOf(s)
            L  == data[s].len
            W  == sequence_length
            n  == L \div W
        IN  /\ Len(ws) <= n
            /\ s < sidx => Len(ws) = n
            /\ \A k \in 1..Len(ws) :
                   /\ ws[k].data = FullWindow(s, k - 1, W)
                   /\ ws[k].step = FullWindow(s, k - 1, W)
            /\ s < sidx =>
                   \A p \in 0..(L - 1) :
                       Cardinality({k \in 1..Len(ws) : p \in PositionsIn(ws[k].data)})
                           = (IF p < n * W THEN 1 ELSE 0)

\* C1 witness: preprocess_data has returned, and some series had at least two
\* full windows and a trailing partial segment that was dropped.
C1_Witness ==
    /\ wpc = "done"
    /\ \E s \in 1..Len(data) :
           /\ data[s].len \div sequence_length >= 2
           /\ data[s].len % sequence_length # 0
           /\ Len(WindowsOf(s)) = data[s].len \div sequence_length

\* C5: a series with a malformed timestamp ends preprocess_data with a fatal
\* error for that series, so no window of that series is ever appended, and no
\* appended window carries a timestamp vector taken from another series.
C5_MalformedTimestampFatal ==
    \A c \in 1..Len(data_chunks) :
        /\ data[data_chunks[c].series_id].ts_ok
        /\ data_chunks[c].timestamp.src = data_chunks[c].series_id

\* ------------------------------------ ActiNetCRFModel (lines 59-96)
\* The learned state is drawn from a small family of integer-valued snapshots:
\* gain is the emission layer's weight, stay the CRF's score for keeping the
\* label from one chain position to the next, mean the running mean of the
\* normalisation layers. A feature vector is one activity level, 0 or 1.
Theta == {Theta0, [gain |-> 2, stay |-> 1, mean |-> 1]}

Classes(nc) == 0..(nc - 1)

\* the same sequence with its elements evaluated (a list, not a generator)
Eager(s) == s \o <<>>

RECURSIVE SumSeq(_)
SumSeq(s) == IF s = <<>> THEN 0 ELSE s[1] + SumSeq(Tail(s))

\* nn.Dropout (lines 67-79): active in training mode only, where it zeroes the
\* elements a random mask selects
DropoutMasks(train, B, W) ==
    IF train THEN [1..B -> [1..W -> BOOLEAN]]
    ELSE {[b \in 1..B |-> [w \in 1..W |-> TRUE]]}

Dropout(x, keep) ==
    Eager([b \in 1..Len(x) |->
        Eager([w \in 1..Len(x[b]) |-> IF keep[b][w] THEN x[b][w] ELSE 0])])

\* nn.BatchNorm1d (lines 68-80): the statistics of the batch in training mode,
\* the running statistics in evaluation mode
Centre(h, mu) ==
    Eager([b \in 1..Len(h) |-> Eager([w \in 1..Len(h[b]) |-> h[b][w] - mu])])

BatchMean(h) == SumSeq([b \in 1..Len(h) |-> SumSeq(h[b])]) \div (Len(h) * Len(h[1]))

BatchNorm(h, train, th) == Centre(h, IF train THEN BatchMean(h) ELSE th.mean)

\* nn.LSTM, bidirectional, batch_first (lines 82, 90): each step sees its own
\* window in both directions, and no other window
Lstm(n) ==
    Eager([b \in 1..Len(n) |->
        Eager([w \in 1..Len(n[b]) |->
                  (IF w > 1 THEN n[b][w - 1] ELSE 0) + 2 * n[b][w]
                  + (IF w < Len(n[b]) THEN n[b][w + 1] ELSE 0)])])

\* line 91, self.fc: one score per class from the context of a step; the
\* score of class c is element c + 1 of the vector
Fc(th, ctx, nc) ==
    Eager([b \in 1..Len(ctx) |-> Eager([w \in 1..Len(ctx[b]) |->
        Eager([n \in 1..nc |-> th.gain * (n - 1) * ctx[b][w]])])])

\* lines 87-91: logits[b][w], one score per class for window b, step w
Logits(th, train, keep, x, nc) ==
    Fc(th, Lstm(BatchNorm(Dropout(x, keep), train, th)), nc)

\* the first (lowest) index of the maximum, as torch.max reports it; over a
\* score vector it is the class plus one
ArgMaxLow(f) ==
    CHOOSE c \in DOMAIN f : \A d \in DOMAIN f : f[c] > f[d] \/ (f[c] = f[d] /\ c <= d)

\* CRF transition score (line 84: torchcrf.CRF's transitions parameter)
Trans(th, c1, c2) == IF c1 = c2 THEN th.stay ELSE 0

MaxOf(f) == f[ArgMaxLow(f)]

\* one step of torchcrf's Viterbi recursion: the best score of a path ending
\* in each label, and the label before it on that path
ViterbiStep(th, prev, emn) ==
    Eager([c2 \in DOMAIN emn |->
        MaxOf(Eager([c1 \in DOMAIN prev |-> prev[c1] + Trans(th, c1, c2)])) + emn[c2]])

RECURSIVE ViterbiScore(_, _, _)
ViterbiScore(th, em, n) ==
    IF n = 1 THEN em[1]
    ELSE ViterbiStep(th, ViterbiScore(th, em, n - 1), em[n])

BackPointer(th, prev, c2) ==
    ArgMaxLow(Eager([c1 \in DOMAIN prev |-> prev[c1] + Trans(th, c1, c2)]))

RECURSIVE ViterbiPath(_, _, _, _)
ViterbiPath(th, em, n, last) ==
    IF n = 1 THEN <<last>>
    ELSE Append(ViterbiPath(th, em, n - 1,
                            BackPointer(th, ViterbiScore(th, em, n - 1), last)),
                last)

Viterbi(th, em) == ViterbiPath(th, em, Len(em), ArgMaxLow(ViterbiScore(th, em, Len(em))))

\* line 95, self.crf.decode(logits). The CRF of line 84 is built with its
\* default batch_first=False, so it reads dimension 0 of logits (the windows of
\* the batch) as the chain and dimension 1 (the steps of a window) as the batch:
\* the result is one list per step w, holding one label per window b. Each
\* label carries, as history, the position (b, w) of the emission it labels.
Tagged(path, w) ==
    Eager([b \in 1..Len(path) |-> [tag |-> path[b] - 1, b |-> b, w |-> w]])

Column(logits, w) == Eager([b \in 1..Len(logits) |-> logits[b][w]])

CrfDecode(th, logits) ==
    Eager([w \in 1..Len(logits[1]) |-> Tagged(Viterbi(th, Column(logits, w)), w)])

\* lines 86-96 with tags = None: a Python list of lists of labels
Forward(th, train, keep, x, nc) ==
    [kind |-> "list", value |-> CrfDecode(th, Logits(th, train, keep, x, nc))]

\* model.train() (line 100) and model.eval() (lines 128, 163) set the mode flag
ModeAfterTrain(mode) == TRUE
ModeAfterEvalMissing(mode) == mode
ModeAfterEval(mode) == FALSE

\* ----------------------------------------------------- data loaders
\* a batch of B windows of length W cut from a stream whose activity level
\* rises at offset p and whose true label rises at offset q
StreamBatch(B, W, p, q) ==
    [series_id |-> [b \in 1..B |-> "s1"],
     step      |-> [b \in 1..B |-> [w \in 1..W |-> (b - 1) * W + w - 1]],
     data      |-> [b \in 1..B |-> [w \in 1..W |->
                       IF (b - 1) * W + w - 1 < p THEN 0 ELSE 1]],
     label     |-> [b \in 1..B |-> [w \in 1..W |->
                       IF (b - 1) * W + w - 1 < q THEN 0 ELSE 1]]]

ModelLoaders ==
    {<<StreamBatch(B, W, p, q)>> :
        <<B, W, p, q>> \in {v \in (1..MaxBatch) \X (1..MaxWin)
                                  \X (0..MaxBatch * MaxWin) \X (0..MaxBatch * MaxWin) :
                               v[3] <= v[1] * v[2] /\ v[4] <= v[1] * v[2]}}

\* ------------------------------------ construction (lines 60-84, 245)
MInit ==
    /\ mpc = "new"
    /\ num_classes = 0
    /\ training = TRUE
    /\ theta \in Theta
    /\ loader \in ModelLoaders
    /\ bidx = 1
    /\ correct_predictions = 0
    /\ total_samples = 0
    /\ predicted = <<>>
    /\ labels_flat = <<>>
    /\ predictions = <<>>
    /\ series_ids = <<>>
    /\ steps = <<>>
    /\ entry_mode = TRUE
    /\ decoded_log = {}
    /\ WIdle
    /\ SIdle

\* line 84, torchcrf.CRF.__init__: the only check made on the class count
CrfRejects(nc) == nc <= 0

\* lines 60-84: a new module is in training mode
Construct ==
    /\ mpc = "new"
    /\ \E nc \in 0..MaxClasses :
           IF CrfRejects(nc)
           THEN /\ mpc' = "failed"
                /\ UNCHANGED <<num_classes, training>>
           ELSE /\ mpc' = "ready"
                /\ num_classes' = nc
                /\ training' = TRUE
    /\ UNCHANGED <<theta, loader, bidx, correct_predictions, total_samples,
                   predicted, labels_flat, predictions, series_ids, steps,
                   entry_mode, decoded_log>>
    /\ UNCHANGED <<wvars, svars>>

\* ------------------------------------ train_model (lines 99-124)
TrainBegin ==
    /\ mpc = "ready"
    /\ training' = ModeAfterTrain(training)
    /\ bidx' = 1
    /\ mpc' = "train"
    /\ UNCHANGED <<num_classes, theta, loader, correct_predictions, total_samples,
                   predicted, labels_flat, predictions, series_ids, steps,
                   entry_mode, decoded_log>>
    /\ UNCHANGED <<wvars, svars>>

\* lines 105-120, one batch: the loss of the batch and the optimizer step. The
\* CRF indexes its transition matrix by the labels, so a label outside the
\* classes raises; otherwise the step leaves some learned state.
TrainBatch ==
    /\ mpc = "train"
    /\ bidx <= Len(loader)
    /\ IF \E b \in 1..Len(loader[bidx].label) : \E w \in 1..Len(loader[bidx].label[b]) :
              loader[bidx].label[b][w] \notin Classes(num_classes)
       THEN /\ mpc' = "raised"
            /\ UNCHANGED <<theta, bidx>>
       ELSE /\ theta' \in Theta
            /\ bidx' = bidx + 1
            /\ mpc' = mpc
    /\ UNCHANGED <<num_classes, training, loader, correct_predictions, total_samples,
                   predicted, labels_flat, predictions, series_ids, steps,
                   entry_mode, decoded_log>>
    /\ UNCHANGED <<wvars, svars>>

\* lines 123-124
TrainEnd ==
    /\ mpc = "train"
    /\ bidx > Len(loader)
    /\ mpc' = IF Len(loader) = 0 THEN "raised" ELSE "ready"
    /\ bidx' = 1
    /\ UNCHANGED <<num_classes, training, theta, loader, correct_predictions,
                   total_samples, predicted, labels_flat, predictions, series_ids,
                   steps, entry_mode, decoded_log>>
    /\ UNCHANGED <<wvars, svars>>

\* ------------------------------------ test_model (lines 127-159)
\* line 141, np.array(logits).T
TransposeMissing(m) == m
Transpose(m) == Eager([c \in 1..Len(m[1]) |-> Eager([r \in 1..Len(m) |-> m[r][c]])])

\* lines 143-144, view(-1): the rows one after the other
Flatten(m) ==
    Eager([n \in 1..(Len(m) * Len(m[1])) |->
              m[((n - 1) \div Len(m[1])) + 1][((n - 1) % Len(m[1])) + 1]])

\* line 138: the labels of the batch, each with its position as history
BatchLabels(batch) ==
    Eager([b \in 1..Len(batch.label) |-> Eager([w \in 1..Len(batch.label[b]) |->
        [tag |-> batch.label[b][w], b |-> b, w |-> w]])])

\* line 146, torch.sum(predicted == labels_flat)
CountEqual(p, l) == Cardinality({n \in 1..Len(p) : p[n].tag = l[n].tag})

\* lines 128-133
TestBegin ==
    /\ mpc = "ready"
    /\ entry_mode' = training
    /\ training' = ModeAfterEval(training)
    /\ correct_predictions' = 0
    /\ total_samples' = 0
    /\ bidx' = 1
    /\ mpc' = "test"
    /\ UNCHANGED <<num_classes, theta, loader, predicted, labels_flat, predictions,
                   series_ids, steps, decoded_log>>
    /\ UNCHANGED <<wvars, svars>>

\* lines 141-147, the bookkeeping of one batch given its flattened vectors
Tally(p, l) ==
    /\ predicted' = p
    /\ labels_flat' = l
    /\ correct_predictions' = correct_predictions + CountEqual(p, l)
    /\ total_samples' = total_samples + Len(l)

Logged(out) ==
    decoded_log' = decoded_log \cup
        {[theta |-> theta, batch |-> bidx, out |-> out, from_training |-> entry_mode]}

TestDecoded(batch, out) ==
    /\ Tally(Flatten(Transpose(out)), Flatten(BatchLabels(batch)))
    /\ Logged(out)

\* lines 136-150, one batch
TestBatch ==
    /\ mpc = "test"
    /\ bidx <= Len(loader)
    /\ \E keep \in DropoutMasks(training, Len(loader[bidx].data), Len(loader[bidx].data[1])) :
           TestDecoded(loader[bidx],
                       Forward(theta, training, keep, loader[bidx].data, num_classes).value)
    /\ bidx' = bidx + 1
    /\ UNCHANGED <<mpc, num_classes, training, theta, loader, predictions,
                   series_ids, steps, entry_mode>>
    /\ UNCHANGED <<wvars, svars>>

\* lines 153-159: the metrics are returned and the locals are gone
TestEnd ==
    /\ mpc = "test"
    /\ bidx > Len(loader)
    /\ mpc' = IF total_samples = 0 THEN "raised" ELSE "ready"
    /\ correct_predictions' = 0
    /\ total_samples' = 0
    /\ predicted' = <<>>
    /\ labels_flat' = <<>>
    /\ bidx' = 1
    /\ UNCHANGED <<num_classes, training, theta, loader, predictions, series_ids,
                   steps, entry_mode, decoded_log>>
    /\ UNCHANGED <<wvars, svars>>


\* ------------------------- predict_events: reassembly (lines 162-184)
\* the windows of a test dataset: series s has nw[s] windows of length W, each
\* with the activity level rising at offset p of the window
TestWindows(nw, W, p) ==
    [s \in 1..Len(nw) |->
        [j \in 1..nw[s] |->
            [series_id |-> ScanIds[s],
             step      |-> [w \in 1..W |-> (j - 1) * W + w - 1],
             data      |-> [w \in 1..W |-> IF w - 1 < p THEN 0 ELSE 1]]]]

RECURSIVE Concat(_)
Concat(ss) == IF ss = <<>> THEN <<>> ELSE ss[1] \o Concat(Tail(ss))

\* DataLoader(batch_size = bs, shuffle = False) (line 276): consecutive groups
\* of bs windows, the last one possibly smaller, each collated field by field
Collate(ws) ==
    [series_id |-> [b \in 1..Len(ws) |-> ws[b].series_id],
     step      |-> [b \in 1..Len(ws) |-> ws[b].step],
     data      |-> [b \in 1..Len(ws) |-> ws[b].data]]

Batches(ws, bs) ==
    [n \in 1..((Len(ws) + bs - 1) \div bs) |->
        Collate(SubSeq(ws, (n - 1) * bs + 1, Min(n * bs, Len(ws))))]

PredictLoaders ==
    {Batches(Concat(TestWindows(nw, W, p)), bs) :
        <<nw, W, p, bs>> \in
            {v \in (UNION {[1..n -> 0..MaxWindows] : n \in 1..MaxScanSeries})
                   \X (1..MaxWin) \X (0..MaxWin) \X (1..MaxBatch) : v[3] <= v[2]}}

\* a trained model and a test loader (lines 273-276)
PInit ==
    /\ mpc = "ready"
    /\ num_classes = 2
    /\ training \in BOOLEAN
    /\ theta \in Theta
    /\ loader \in PredictLoaders
    /\ bidx = 1
    /\ correct_predictions = 0
    /\ total_samples = 0
    /\ predicted = <<>>
    /\ labels_flat = <<>>
    /\ predictions = <<>>
    /\ series_ids = <<>>
    /\ steps = <<>>
    /\ entry_mode = training
    /\ decoded_log = {}
    /\ WIdle
    /\ SIdle

\* line 179, torch.max(logits, 2): defined on a tensor of scores, where it
\* yields the index of the maximum along the class dimension; the list that
\* forward returns in inference mode is not a tensor and the call raises
\* TypeError
TorchMax(v) ==
    IF v.kind = "tensor"
    THEN [ok |-> TRUE,
          indices |-> Eager([b \in 1..Len(v.value) |->
                         Eager([w \in 1..Len(v.value[b]) |->
                                   ArgMaxLow(v.value[b][w]) - 1])])]
    ELSE [ok |-> FALSE, indices |-> <<>>]

\* lines 163-168
PredictBegin ==
    /\ mpc = "ready"
    /\ entry_mode' = training
    /\ training' = ModeAfterEval(training)
    /\ predictions' = <<>>
    /\ series_ids' = <<>>
    /\ steps' = <<>>
    /\ bidx' = 1
    /\ mpc' = "predict"
    /\ UNCHANGED <<num_classes, theta, loader, correct_predictions, total_samples,
                   predicted, labels_flat, decoded_log>>
    /\ UNCHANGED <<wvars, svars>>

\* lines 179-182: row 0 of the batch, and only row 0, is kept
Reassemble(batch, r) ==
    IF r.ok
    THEN /\ predictions' = predictions \o r.indices[1]
         /\ series_ids' = series_ids \o
                [n \in 1..Len(r.indices[1]) |-> batch.series_id[1]]
         /\ steps' = steps \o batch.step[1]
         /\ bidx' = bidx + 1
         /\ mpc' = mpc
    ELSE /\ mpc' = "raised"
         /\ UNCHANGED <<predictions, series_ids, steps, bidx>>

PredictDecoded(batch, logits) ==
    /\ Logged(logits.value)
    /\ Reassemble(batch, TorchMax(logits))

\* lines 170-182, one batch
PredictBatch ==
    /\ mpc = "predict"
    /\ bidx <= Len(loader)
    /\ \E keep \in DropoutMasks(training, Len(loader[bidx].data), Len(loader[bidx].data[1])) :
           PredictDecoded(loader[bidx],
                          Forward(theta, training, keep, loader[bidx].data, num_classes))
    /\ UNCHANGED <<num_classes, training, theta, loader, correct_predictions,
                   total_samples, predicted, labels_flat, entry_mode>>
    /\ UNCHANGED <<wvars, svars>>

\* line 184: the three lists are handed to pred_to_dict
PredictEnd ==
    /\ mpc = "predict"
    /\ bidx > Len(loader)
    /\ mpc' = "reassembled"
    /\ UNCHANGED <<num_classes, training, theta, loader, bidx, correct_predictions,
                   total_samples, predicted, labels_flat, predictions, series_ids,
                   steps, entry_mode, decoded_log>>
    /\ UNCHANGED <<wvars, svars>>

PNext ==
    \/ PredictBegin
    \/ PredictBatch
    \/ PredictEnd

SpecPredict == PInit /\ [][PNext]_vars

\* ------------------------------- predict_events: the scan (lines 188-206)
BitSeqs(n) == UNION {[1..m -> {0, 1}] : m \in 0..n}

\* the step vector aligned with a sequence of the given length
StepsFor(len) == [j \in 1..len |-> 10 * j]

\* the cleaned sequences the scan can be handed: any binary sequences, the
\* empty one included, keyed by distinct series ids
PredSeqs == BitSeqs(MaxPreds)

PredDicts(n) ==
    {[s \in 1..n |-> [series_id |-> ScanIds[s],
                      preds     |-> f[s],
                      steps     |-> StepsFor(Len(f[s]))]] : f \in [1..n -> PredSeqs]}

\* lines 188-190
SInit ==
    /\ \E n \in 1..MaxScanSeries : pred_dict \in PredDicts(n)
    /\ prediction_rows = <<>>
    /\ curr_state = None
    /\ curr_series = None
    /\ spos = 1
    /\ zpos = 1
    /\ spc = "series"
    /\ origin = <<>>
    /\ WIdle
    /\ MIdle

\* line 197
EventKindSwapped(state) == IF state = 1 THEN "onset" ELSE "wakeup"
EventKind(state) == IF state = 1 THEN "wakeup" ELSE "onset"

\* line 199
RowIdOneBased(rows) == Len(rows) + 1
RowId(rows) == Len(rows)

\* lines 198-204; the score 1.0 is written 1
NewRow(rows, series, step, state) ==
    [row_id    |-> RowId(rows),
     series_id |-> series,
     step      |-> step,
     event     |-> EventKind(state),
     score     |-> 1]

\* lines 191-192: the next item of pred_dict; preds[0] of an empty sequence
\* raises IndexError
ScanSeries ==
    /\ spc = "series"
    /\ spos <= Len(pred_dict)
    /\ IF Len(pred_dict[spos].preds) = 0
       THEN /\ spc' = "error"
            /\ UNCHANGED <<curr_state, zpos>>
       ELSE /\ curr_state' = pred_dict[spos].preds[1]
            /\ zpos' = 2
            /\ spc' = "pairs"
    /\ UNCHANGED <<pred_dict, prediction_rows, curr_series, spos, origin>>
    /\ UNCHANGED <<wvars, mvars>>

\* lines 193-204: one pair of zip(preds[1:], steps[1:])
ScanPair ==
    /\ spc = "pairs"
    /\ zpos <= Len(pred_dict[spos].preds)
    /\ LET pred == pred_dict[spos].preds[zpos]
           step == pred_dict[spos].steps[zpos]
       IN  IF pred # curr_state
           THEN /\ curr_state' = pred
                /\ prediction_rows' =
                       Append(prediction_rows,
                              NewRow(prediction_rows, curr_series, step, pred))
                /\ origin' = Append(origin, [series |-> pred_dict[spos].series_id,
                                             idx    |-> zpos])
           ELSE UNCHANGED <<curr_state, prediction_rows, origin>>
    /\ zpos' = zpos + 1
    /\ UNCHANGED <<pred_dict, curr_series, spos, spc>>
    /\ UNCHANGED <<wvars, mvars>>

\* line 193, the zip is exhausted: on to the next series
ScanPairsDone ==
    /\ spc = "pairs"
    /\ zpos > Len(pred_dict[spos].preds)
    /\ spos' = spos + 1
    /\ spc' = "series"
    /\ UNCHANGED <<pred_dict, prediction_rows, curr_state, curr_series, zpos, origin>>
    /\ UNCHANGED <<wvars, mvars>>

\* line 206
ScanReturn ==
    /\ spc = "series"
    /\ spos > Len(pred_dict)
    /\ spc' = "done"
    /\ UNCHANGED <<pred_dict, prediction_rows, curr_state, curr_series, spos, zpos, origin>>
    /\ UNCHANGED <<wvars, mvars>>

SNext ==
    \/ ScanSeries
    \/ ScanPair
    \/ ScanPairsDone
    \/ ScanReturn

SpecScan == SInit /\ [][SNext]_vars

\* ------------------------------- predict_events: the scan, claims
\* the indices (1-based) up to `upto` at which the sequence changes state
FlipsUpTo(preds, upto) == {n \in 2..upto : n <= Len(preds) /\ preds[n] # preds[n - 1]}

\* how far the scan has read the sequence of the series at position s
ScannedUpTo(s) ==
    IF s < spos THEN Len(pred_dict[s].preds)
    ELSE IF s = spos /\ spc = "pairs" THEN zpos - 1
    ELSE 0

RowsFrom(id) == {r \in 1..Len(origin) : origin[r].series = id}

\* C2: for a series of at least 2 samples the scan emits exactly one event for
\* each index n >= 1 with preds[n] # preds[n-1] and no other event; the event's
\* step is steps[n], its kind is onset when preds[n] = 0 and wakeup when
\* preds[n] = 1, its score is 1.0, and the events come in index order. The
\* first sample never emits an event; a constant sequence emits none.
C2_TransitionScan ==
    /\ Len(origin) = Len(prediction_rows)
    /\ \A s \in 1..Len(pred_dict) :
        LET e     == pred_dict[s]
            flips == FlipsUpTo(e.preds, ScannedUpTo(s))
            rows  == RowsFrom(e.series_id)
        IN  Len(e.preds) >= 2 =>
            /\ \A n \in flips :
                   Cardinality({r \in rows : origin[r].idx = n}) = 1
            /\ \A r \in rows :
                   /\ origin[r].idx \in flips
                   /\ prediction_rows[r].step = e.steps[origin[r].idx]
                   /\ prediction_rows[r].event =
                          (IF e.preds[origin[r].idx] = 0 THEN "onset" ELSE "wakeup")
                   /\ prediction_rows[r].score = 1
            /\ \A r1, r2 \in rows : r1 < r2 => origin[r1].idx < origin[r2].idx

\* C2 witness: the scan has returned after reading a series with an onset and
\* a wakeup, both emitted.
C2_Witness ==
    /\ spc = "done"
    /\ \E r1, r2 \in 1..Len(prediction_rows) :
           /\ origin[r1].series = origin[r2].series
           /\ prediction_rows[r1].event = "wakeup"
           /\ prediction_rows[r2].event = "onset"

\* C3: every emitted row carries, in series_id, the identifier of the series
\* whose sequence held the state change that produced the row.
C3_RowSeriesId ==
    \A r \in 1..Len(prediction_rows) :
        prediction_rows[r].series_id = origin[r].series

\* C4: a series whose cleaned sequence is empty or has one sample yields zero
\* events and no error, and the other series of the call are still scanned.
C4_ShortSeriesNoError ==
    /\ \A r \in 1..Len(origin) :
           \A s \in 1..Len(pred_dict) :
               pred_dict[s].series_id = origin[r].series => Len(pred_dict[s].preds) >= 2
    /\ ~(spc = "error" /\ Len(pred_dict[spos].preds) < 2)

\* C7: the row emitted k-th (from 0, across all series, in emission order) has
\* row_id = k, so the row_ids are distinct and are exactly 0..N-1.
C7_DenseRowIds ==
    \A r \in 1..Len(prediction_rows) : prediction_rows[r].row_id = r - 1

\* C7 witness: the scan has returned with at least three rows that come from
\* two different series.
C7_Witness ==
    /\ spc = "done"
    /\ Len(prediction_rows) >= 3
    /\ \E r1, r2 \in 1..Len(origin) : origin[r1].series # origin[r2].series

MNext ==
    \/ Construct
    \/ TrainBegin
    \/ TrainBatch
    \/ TrainEnd
    \/ TestBegin
    \/ TestBatch
    \/ TestEnd
    \/ PredictBegin
    \/ PredictBatch

SpecModel == MInit /\ [][MNext]_vars

\* ------------------------------- the model and the loops: claims
RECURSIVE FilterBy(_, _, _)
FilterBy(ids, vals, id) ==
    IF ids = <<>> \/ vals = <<>> THEN <<>>
    ELSE (IF ids[1] = id THEN <<vals[1]>> ELSE <<>>)
         \o FilterBy(Tail(ids), Tail(vals), id)

\* the steps of all windows of a series, in the order the loader yields them
RECURSIVE StepsOfSeries(_, _)
StepsOfSeries(batches, id) ==
    IF batches = <<>> THEN <<>>
    ELSE Concat(FilterBy(batches[1].series_id, batches[1].step, id))
         \o StepsOfSeries(Tail(batches), id)

\* C6: whatever the batch size, once the loop of predict_events has ended the
\* reassembled sequence of a series with n windows of length W has length n*W
\* and its steps are the steps of the n windows in ascending order, every
\* entry carrying the identifier of that series.
C6_ReassemblyComplete ==
    mpc \in {"reassembled", "raised"} =>
        \A s \in 1..MaxScanSeries :
            /\ FilterBy(series_ids, steps, ScanIds[s]) = StepsOfSeries(loader, ScanIds[s])
            /\ Len(FilterBy(series_ids, predictions, ScanIds[s]))
                   = Len(StepsOfSeries(loader, ScanIds[s]))

\* C8: constructing the model with a class count below 2 never yields a usable
\* model object.
C8_ClassCountValidated ==
    mpc \notin {"new", "failed"} => num_classes >= 2

\* C9: with the same learned state and the same input, any two inference-mode
\* decodings made by test_model and predict_events return the same labels,
\* whichever mode the model was in when the call was entered.
C9_DecodingDeterministic ==
    \A a, b \in decoded_log :
        (a.theta = b.theta /\ a.batch = b.batch) => a.out = b.out

\* C9 witness: the same input has been decoded under the same learned state
\* by a call entered in training mode and by a call entered in evaluation mode.
C9_Witness ==
    \E a, b \in decoded_log :
        /\ a.theta = b.theta
        /\ a.batch = b.batch
        /\ a.from_training
        /\ ~b.from_training

\* C10: after a batch of test_model, element n of the flattened predictions
\* and element n of the flattened labels are the decoded label and the true
\* label of the same (window, step) position, every position occurs once, and
\* correct_predictions counts the positions whose decoded label equals the
\* true label of that position.
C10_AlignedFlattening ==
    (mpc = "test" /\ bidx = 2) =>
        LET batch == loader[1]
            B     == Len(batch.label)
            W     == Len(batch.label[1])
        IN  /\ Len(predicted) = B * W
            /\ Len(labels_flat) = B * W
            /\ \A n \in 1..Len(predicted) :
                   /\ predicted[n].b = labels_flat[n].b
                   /\ predicted[n].w = labels_flat[n].w
                   /\ labels_flat[n].tag = batch.label[labels_flat[n].b][labels_flat[n].w]
            /\ \A b \in 1..B : \A w \in 1..W :
                   Cardinality({n \in 1..Len(predicted) :
                                   predicted[n].b = b /\ predicted[n].w = w}) = 1
            /\ correct_predictions =
                   Cardinality({n \in 1..Len(predicted) :
                       predicted[n].tag = batch.label[predicted[n].b][predicted[n].w]})
            /\ total_samples = B * W

\* C10 witness: a batch of several windows, with a window length different
\* from the batch size, has been tallied with some but not all labels right.
C10_Witness ==
    /\ mpc = "test"
    /\ bidx = 2
    /\ Len(loader[1].label) >= 2
    /\ Len(loader[1].label[1]) >= 2
    /\ Len(loader[1].label) # Len(loader[1].label[1])
    /\ correct_predictions > 0
    /\ correct_predictions < total_samples
    /\ \E n1, n2 \in 1..Len(predicted) : predicted[n1].tag # predicted[n2].tag

====
